---------------------------- MODULE Spec2Model ----------------------------
(***************************************************************************)
(* A model of dirshot (src/src/dirshot/dirshot.py): the criteria           *)
(* normaliser, the filesystem walker, the name/content matcher, the        *)
(* thread-pool coordinator and the orchestration in generate_snapshot.     *)
(*                                                                         *)
(* Text is modelled by TLA+ strings, on which TLC evaluates Len, SubSeq,   *)
(* Tail and \o.  A path is the sequence of its components.                 *)
(***************************************************************************)
EXTENDS Integers, Sequences, FiniteSets, TLC

VARIABLES
    fs,               \* the environment: the filesystem, and whether rich is installed
    args,             \* the arguments of generate_snapshot
    pc,               \* position of the main thread in generate_snapshot
    console,          \* messages logged through ConsoleManager.log
    keywords,         \* generate_snapshot: keywords
    snapshot_mode,    \* generate_snapshot: snapshot_mode
    criteria,         \* generate_snapshot: criteria (a FilterCriteria)
    stack,            \* call stack of recursive_scan: frames [path, todo]
    candidate_files,  \* _discover_files: candidate_files (absolute paths)
    dirs_scanned,     \* _discover_files: dirs_scanned
    matched_files,    \* generate_snapshot: matched_files
    future,           \* _process_files_concurrently: one future per file
    worker,           \* the pool's threads: index of the future each runs, or 0
    thread_activity,  \* _process_files_concurrently: thread_activity
    active_threads,   \* the coordinator's iteration over thread_activity
    advanced,         \* progress.update(advance=1) calls of the search task
    opened,           \* files whose content process_file_for_search opened
    output,           \* the output file and the metrics of its collation
    exception,        \* the exception that ended the call, or ""
    previous          \* the calls made before this one, and what the last one gave

vars == <<fs, args, pc, console, keywords, snapshot_mode, criteria, stack,
          candidate_files, dirs_scanned, matched_files, future, worker,
          thread_activity, active_threads, advanced, opened, output, exception,
          previous>>

(***************************************************************************)
(* Bounds of the model.                                                    *)
(***************************************************************************)
\* Symbolic links the system follows in resolving one path before it fails
\* with ELOOP (40 on Linux).
MaxSymlinks == 2
\* Longest list of presets passed as language_presets / ignore_presets.
MaxPresets == 3
\* Largest max_workers argument tried.
MaxWorkers == 2
\* os.cpu_count() of the machine.
CpuCount == 1
\* Calls of generate_snapshot made one after the other on the same tree.
MaxCalls == 2

(***************************************************************************)
(* Text: str.lower, str.strip, the `in` operator, PurePath.suffix.         *)
(***************************************************************************)
Range(s) == {s[i] : i \in DOMAIN s}

Ch(s, i) == SubSeq(s, i, i)

UpperCase == "ABCDEFGHIJKLMNOPQRSTUVWXYZ"
LowerCase == "abcdefghijklmnopqrstuvwxyz"
WhiteSpace == {" ", "\t", "\n"}

LowerChar(c) ==
    IF \E i \in 1..Len(UpperCase) : Ch(UpperCase, i) = c
    THEN Ch(LowerCase, CHOOSE i \in 1..Len(UpperCase) : Ch(UpperCase, i) = c)
    ELSE c

RECURSIVE lower(_)
\* str.lower(), computed by halves so that a long line needs little depth.
lower(s) ==
    IF s = "" THEN ""
    ELSE IF Len(s) = 1 THEN LowerChar(Ch(s, 1))
    ELSE lower(SubSeq(s, 1, Len(s) \div 2)) \o lower(SubSeq(s, Len(s) \div 2 + 1, Len(s)))

strip(s) ==
    LET keep == {i \in 1..Len(s) : Ch(s, i) \notin WhiteSpace}
    IN  IF keep = {} THEN ""
        ELSE SubSeq(s, CHOOSE i \in keep : \A j \in keep : i <= j,
                       CHOOSE i \in keep : \A j \in keep : j <= i)

\* Python's `key in target` on strings.
Contains(key, target) ==
    \E i \in 0..(Len(target) - Len(key)) : SubSeq(target, i + 1, i + Len(key)) = key

\* PurePath.suffix: from the last dot of the name, unless that dot is the
\* first or the last character.
suffix(name) ==
    LET dots == {i \in 1..Len(name) : Ch(name, i) = "."}
    IN  IF dots = {} THEN ""
        ELSE LET p == CHOOSE i \in dots : \A j \in dots : j <= i
             IN  IF 1 < p /\ p < Len(name) THEN SubSeq(name, p, Len(name)) ELSE ""

RECURSIVE Join(_)
\* str(path) of an absolute path / as_posix: "/" before every component.
Join(parts) == IF parts = <<>> THEN "" ELSE "/" \o Head(parts) \o Join(Tail(parts))

path_str(path) == Join(path)

path_name(path) == path[Len(path)]

(***************************************************************************)
(* Configuration constants and presets.                                    *)
(***************************************************************************)
BINARY_FILE_EXTENSIONS ==
    {".png", ".jpg", ".jpeg", ".gif", ".pdf", ".zip", ".exe", ".dll", ".so",
     ".jar", ".pyc", ".mp3", ".mp4"}

TREE_HEADER_TEXT == "Project File Structure"

\* Width of the separator lines: "-" * 80.
SeparatorWidth == 80

RECURSIVE Repeat(_, _)
Repeat(c, n) == IF n = 0 THEN "" ELSE c \o Repeat(c, n - 1)

Separator == Repeat("-", SeparatorWidth)

PYTHON_BASE ==
    <<".py", ".pyw", "requirements.txt", "Pipfile", "pyproject.toml", "setup.py">>

R_LANG_BASE == <<".r", ".R", ".Rmd">>

\* The members of LanguagePreset the model passes, by name.
LanguagePreset == [PYTHON |-> PYTHON_BASE, R_LANG |-> R_LANG_BASE]

\* The members of IgnorePreset the model passes, by name.
IgnorePreset ==
    [UNITY |-> <<"Library", "Temp", "Logs", "UserSettings", "MemoryCaptures",
                 "Assets/AssetStoreTools">>,
     LOGS  |-> <<"*.log", "logs", "npm-debug.log*", "yarn-debug.log*",
                 "yarn-error.log*">>]

(***************************************************************************)
(* Optional[List[...]] arguments: None, or a list.                         *)
(***************************************************************************)
None == [is_none |-> TRUE, list |-> <<>>]

Some(l) == [is_none |-> FALSE, list |-> l]

\* `x or []`
OrEmpty(x) == IF x.is_none \/ x.list = <<>> THEN <<>> ELSE x.list

(***************************************************************************)
(* FilterCriteria.normalize_inputs                                         *)
(***************************************************************************)
\* Mutant of UpdateAll: only the last preset of the list is applied.
UpdateAll_last_only(acc, presets, enum) ==
    IF presets = <<>> THEN acc ELSE acc \cup Range(enum[presets[Len(presets)]])

RECURSIVE UpdateAll(_, _, _)
\* for p in presets: acc.update(p.value)
UpdateAll(acc, presets, enum) ==
    IF presets = <<>> THEN acc
    ELSE UpdateAll(acc \cup Range(enum[Head(presets)]), Tail(presets), enum)

normalize_inputs(file_types, ignore_if_in_path, ignore_extensions, lang_presets, ignore_presets) ==
    LET all_exts == {strip(lower(ft)) : ft \in Range(OrEmpty(file_types))}
        all_ignore_paths ==
            {strip(lower(ip)) : ip \in Range(OrEmpty(ignore_if_in_path))}
        all_ignore_exts ==
            {strip(lower(ie)) : ie \in Range(OrEmpty(ignore_extensions))}
    IN  [file_extensions   |-> UpdateAll(all_exts, OrEmpty(lang_presets),
                                         LanguagePreset),
         ignore_if_in_path |-> UpdateAll(all_ignore_paths,
                                         OrEmpty(ignore_presets), IgnorePreset),
         ignore_extensions |-> all_ignore_exts]

(***************************************************************************)
(* The filesystem.  nodes maps a path relative to the root to its entry;   *)
(* a directory lists its entries in the order os.scandir yields them.      *)
(***************************************************************************)
File(lines, readable) == [kind |-> "file", entries |-> <<>>, listable |-> FALSE, readable |-> readable, lines |-> lines]

Dir(entries, listable) == [kind |-> "dir", entries |-> entries, listable |-> listable, readable |-> FALSE, lines |-> <<>>]

\* Neither a directory nor a regular file (a socket, a dangling link).
Other == [kind |-> "other", entries |-> <<>>, listable |-> FALSE, readable |-> FALSE, lines |-> <<>>]

\* A symbolic link to the directory `target` (a path relative to the root).
Link(target) == [kind |-> "link", entries |-> <<>>, listable |-> FALSE, readable |-> FALSE, lines |-> <<>>, target |-> target]

\* The project of tests/test.py (setUp), with an upper-case suffix, R files,
\* a log, a Unity-style Library, a directory that cannot be listed and an
\* entry that is neither file nor directory.
ProjectNodes ==
    (<<>> :> Dir(<<"main.py", "src", "README.md", "requirements.txt", "Pipfile",
                   "node_modules", "Library", "logs", "app.log", "notes.Rmd",
                   "locked", "dev">>, TRUE))
    @@ (<<"main.py">> :> File(<<"import api\n", "# Main entry point">>, TRUE))
    @@ (<<"src">> :> Dir(<<"utils.py", "api", "Old.PY">>, TRUE))
    @@ (<<"src", "utils.py">> :> File(<<"def helper_function(): pass">>, TRUE))
    @@ (<<"src", "api">> :> Dir(<<"routes.js">>, TRUE))
    @@ (<<"src", "api", "routes.js">> :> File(<<"const value = 'api';">>, TRUE))
    @@ (<<"src", "Old.PY">> :> File(<<"# Old code">>, TRUE))
    @@ (<<"README.md">> :> File(<<"Project documentation.">>, TRUE))
    @@ (<<"requirements.txt">> :> File(<<"tqdm==4.62.3">>, TRUE))
    @@ (<<"Pipfile">> :> File(<<"[packages]">>, TRUE))
    @@ (<<"node_modules">> :> Dir(<<"dependency.js">>, TRUE))
    @@ (<<"node_modules", "dependency.js">> :> File(<<"// some lib">>, TRUE))
    @@ (<<"Library">> :> Dir(<<"x.R">>, TRUE))
    @@ (<<"Library", "x.R">> :> File(<<"x <- 1">>, TRUE))
    @@ (<<"logs">> :> Dir(<<"err.txt">>, TRUE))
    @@ (<<"logs", "err.txt">> :> File(<<"boom">>, TRUE))
    @@ (<<"app.log">> :> File(<<"started">>, TRUE))
    @@ (<<"notes.Rmd">> :> File(<<"# notes">>, TRUE))
    @@ (<<"locked">> :> Dir(<<"in.py">>, FALSE))
    @@ (<<"locked", "in.py">> :> File(<<"pass">>, TRUE))
    @@ (<<"dev">> :> Other)

\* A small project for keyword search: a name match, a content match in
\* another letter case, a binary file, a file that cannot be read.
SearchNodes ==
    (<<>> :> Dir(<<"Key.py", "a.txt", "b.png", "d">>, TRUE))
    @@ (<<"Key.py">> :> File(<<"x = 1">>, TRUE))
    @@ (<<"a.txt">> :> File(<<"x\n", "a KEY">>, TRUE))
    @@ (<<"b.png">> :> File(<<"key">>, TRUE))
    @@ (<<"d">> :> Dir(<<"c.md", "e.md">>, TRUE))
    @@ (<<"d", "c.md">> :> File(<<"x">>, TRUE))
    @@ (<<"d", "e.md">> :> File(<<"key">>, FALSE))

\* A flat project with more files than the default pool has threads.
FlatNodes ==
    (<<>> :> Dir(<<"a.py", "b.py", "c.py", "d.py", "e.py", "f.py">>, TRUE))
    @@ [p \in {<<"a.py">>, <<"b.py">>, <<"c.py">>, <<"d.py">>, <<"e.py">>, <<"f.py">>} |-> File(<<"pass">>, TRUE)]

\* A project with a document that quotes a block of an earlier snapshot.
QuotingNodes ==
    (<<>> :> Dir(<<"doc.md", "lib">>, TRUE))
    @@ (<<"doc.md">> :> File(<<"Sample:\n", "\n", Separator \o "\n", "FILE: ghost.py\n", Separator \o "\n", "\n", "print(1)\n">>, TRUE))
    @@ (<<"lib">> :> Dir(<<"m.py">>, TRUE))
    @@ (<<"lib", "m.py">> :> File(<<"pass\n">>, TRUE))

\* A project with a symbolic link back to its own root.
LoopNodes ==
    (<<>> :> Dir(<<"a.py", "loop", "pkg">>, TRUE))
    @@ (<<"a.py">> :> File(<<"pass">>, TRUE))
    @@ (<<"loop">> :> Link(<<>>))
    @@ (<<"pkg">> :> Dir(<<"b.py">>, TRUE))
    @@ (<<"pkg", "b.py">> :> File(<<"pass">>, TRUE))

\* A project with directories in directories, names in both letter cases,
\* content with blanks and line ends, and a file that cannot be read.
NestedNodes ==
    (<<>> :> Dir(<<"b.txt", "Zed", "A.md", "alpha">>, TRUE))
    @@ (<<"b.txt">> :> File(<<"B b\n", "\tend">>, TRUE))
    @@ (<<"Zed">> :> Dir(<<"y.py", "sub">>, TRUE))
    @@ (<<"Zed", "y.py">> :> File(<<"y = 1\n">>, TRUE))
    @@ (<<"Zed", "sub">> :> Dir(<<"k.py">>, TRUE))
    @@ (<<"Zed", "sub", "k.py">> :> File(<<"k">>, TRUE))
    @@ (<<"A.md">> :> File(<<"# A\n", "\n", "text\n">>, TRUE))
    @@ (<<"alpha">> :> Dir(<<"n.py", "M.py">>, TRUE))
    @@ (<<"alpha", "n.py">> :> File(<<>>, TRUE))
    @@ (<<"alpha", "M.py">> :> File(<<"secret">>, FALSE))

ProjectTree == [root |-> <<"home", "proj">>, root_is_dir |-> TRUE, nodes |-> ProjectNodes, rich_available |-> FALSE]

SearchTree == [root |-> <<"srv", "app">>, root_is_dir |-> TRUE, nodes |-> SearchNodes, rich_available |-> FALSE]

LoopTree == [root |-> <<"home", "loop">>, root_is_dir |-> TRUE, nodes |-> LoopNodes, rich_available |-> FALSE]

QuotingTree == [root |-> <<"srv", "docs">>, root_is_dir |-> TRUE, nodes |-> QuotingNodes, rich_available |-> FALSE]

FlatTree == [root |-> <<"srv", "flat">>, root_is_dir |-> TRUE, nodes |-> FlatNodes, rich_available |-> FALSE]

NestedTree == [root |-> <<"srv", "Repo">>, root_is_dir |-> TRUE, nodes |-> NestedNodes, rich_available |-> FALSE]

\* The same filesystem on a machine where rich can be imported.
WithRich(tree) == [tree EXCEPT !.rich_available = TRUE]

\* A root_directory that does not name a directory.
MissingRoot == [root |-> <<"home", "gone">>, root_is_dir |-> FALSE, nodes |-> (<<>> :> Other), rich_available |-> FALSE]

\* path.relative_to(root_dir)
relative_to(path) == SubSeq(path, Len(fs.root) + 1, Len(path))

RECURSIVE resolve(_, _)
\* The node a path below the root leads to, the links on the way followed:
\* resolve(<<>>, path).
resolve(at, path) ==
    IF path = <<>> THEN at
    ELSE LET next == Append(at, Head(path))
         IN  resolve(IF fs.nodes[next].kind = "link" THEN fs.nodes[next].target ELSE next, Tail(path))

RECURSIVE links_followed(_, _)
\* The number of links followed on the way: links_followed(<<>>, path).
links_followed(at, path) ==
    IF path = <<>> THEN 0
    ELSE LET next == Append(at, Head(path))
         IN  IF fs.nodes[next].kind = "link"
             THEN 1 + links_followed(fs.nodes[next].target, Tail(path))
             ELSE links_followed(next, Tail(path))

\* The stat that entry.is_dir() / entry.is_file() make of a symbolic link
\* fails with OSError (ELOOP), which DirEntry does not swallow.
stat_fails(path) == links_followed(<<>>, path) > MaxSymlinks

\* os.scandir(current_path); PermissionError / FileNotFoundError are caught
\* by recursive_scan, which then returns having seen no entry.
scandir(path) == IF fs.nodes[resolve(<<>>, path)].listable THEN fs.nodes[resolve(<<>>, path)].entries ELSE <<>>

(***************************************************************************)
(* _discover_files                                                         *)
(***************************************************************************)
\* Mutant of is_ignored_entry: the entry name is compared as written.
is_ignored_entry_as_written(name, crit) == name \in crit.ignore_if_in_path

\* Mutant of is_ignored_entry: a token that starts with "*" is a pattern for
\* the end of the name.
is_ignored_entry_glob(name, crit) ==
    \/ lower(name) \in crit.ignore_if_in_path
    \/ \E t \in crit.ignore_if_in_path : t # "" /\ Ch(t, 1) = "*" /\ Len(t) <= Len(name) + 1 /\ SubSeq(lower(name), Len(name) - Len(t) + 2, Len(name)) = Tail(t)

\* recursive_scan: `if entry_lower in criteria.ignore_if_in_path: continue`
is_ignored_entry(name, crit) == lower(name) \in crit.ignore_if_in_path

\* Mutant of is_candidate_file: the include set is consulted first.
is_candidate_file_include_first(name, crit) ==
    LET file_ext == lower(suffix(name))
    IN  IF crit.file_extensions # {} /\ file_ext \in crit.file_extensions
        THEN TRUE
        ELSE crit.file_extensions = {} /\ file_ext \notin crit.ignore_extensions

\* Mutant of is_candidate_file: an empty include set admits nothing.
is_candidate_file_no_default(name, crit) ==
    LET file_ext == lower(suffix(name))
    IN  file_ext \notin crit.ignore_extensions /\ file_ext \in crit.file_extensions

\* recursive_scan, the elif entry.is_file() branch: whether the file is
\* appended to candidate_files.
is_candidate_file(name, crit) ==
    LET file_ext == lower(suffix(name))
    IN  IF crit.ignore_extensions # {} /\ file_ext \in crit.ignore_extensions
        THEN FALSE
        ELSE crit.file_extensions = {} \/ file_ext \in crit.file_extensions

Top == stack[Len(stack)]

Pop == SubSeq(stack, 1, Len(stack) - 1)

\* generate_snapshot up to the check of the root: not a directory.
generate_snapshot_no_root ==
    /\ pc = "start"
    /\ ~fs.root_is_dir
    /\ console' = Append(console, "Error: Root directory not found.")
    /\ pc' = "done"
    /\ UNCHANGED <<previous, fs, args, keywords, snapshot_mode, criteria, stack, candidate_files, dirs_scanned, matched_files, future, worker, thread_activity, active_threads, advanced, opened, output, exception>>

\* Mutant of usable_keywords: blank keywords are kept.
usable_keywords_unfiltered(search_keywords) ==
    [i \in DOMAIN OrEmpty(search_keywords) |-> strip(lower(OrEmpty(search_keywords)[i]))]

\* [k.lower().strip() for k in search_keywords or [] if k.strip()]
usable_keywords(search_keywords) ==
    LET kept == SelectSeq(OrEmpty(search_keywords), LAMBDA k : strip(k) # "")
    IN  [i \in DOMAIN kept |-> strip(lower(kept[i]))]

\* Mutant of generate_snapshot_begin: the root is not checked.
generate_snapshot_begin_unchecked ==
    /\ pc = "start"
    /\ keywords' = usable_keywords(args.search_keywords)
    /\ snapshot_mode' = (keywords' = <<>>)
    /\ criteria' = normalize_inputs(args.file_extensions, args.ignore_if_in_path, args.ignore_extensions, args.language_presets, args.ignore_presets)
    /\ stack' = <<[path |-> <<>>, todo |-> scandir(<<>>)]>>
    /\ pc' = "discover"
    /\ UNCHANGED <<previous, fs, args, console, candidate_files, dirs_scanned, matched_files, future, worker, thread_activity, active_threads, advanced, opened, output, exception>>

\* generate_snapshot from its entry to the call of _discover_files, which
\* calls recursive_scan(root_dir).
generate_snapshot_begin ==
    /\ pc = "start"
    /\ fs.root_is_dir
    /\ keywords' = usable_keywords(args.search_keywords)
    /\ snapshot_mode' = (keywords' = <<>>)
    /\ criteria' = normalize_inputs(args.file_extensions, args.ignore_if_in_path, args.ignore_extensions, args.language_presets, args.ignore_presets)
    /\ stack' = <<[path |-> <<>>, todo |-> scandir(<<>>)]>>
    /\ pc' = "discover"
    /\ UNCHANGED <<previous, fs, args, console, candidate_files, dirs_scanned, matched_files, future, worker, thread_activity, active_threads, advanced, opened, output, exception>>

\* One iteration of `for entry in os.scandir(current_path)`.  An OSError
\* other than PermissionError and FileNotFoundError leaves every
\* recursive_scan on the stack and generate_snapshot.
recursive_scan_entry ==
    /\ pc = "discover"
    /\ Top.todo # <<>>
    /\ LET name == Head(Top.todo)
           entry_path == Top.path \o <<name>>
           rest == [stack EXCEPT ![Len(stack)].todo = Tail(@)]
           kind == fs.nodes[resolve(<<>>, entry_path)].kind
       IN  IF is_ignored_entry(name, criteria)
           THEN stack' = rest /\ UNCHANGED <<candidate_files, pc, exception>>
           ELSE IF stat_fails(entry_path)
           THEN /\ exception' = "OSError"
                /\ pc' = "raised"
                /\ UNCHANGED <<stack, candidate_files>>
           ELSE IF kind = "dir"
           THEN /\ stack' = Append(rest, [path |-> entry_path, todo |-> scandir(entry_path)])
                /\ UNCHANGED <<candidate_files, pc, exception>>
           ELSE IF kind = "file" /\ is_candidate_file(name, criteria)
           THEN /\ stack' = rest
                /\ candidate_files' = Append(candidate_files, fs.root \o entry_path)
                /\ UNCHANGED <<pc, exception>>
           ELSE stack' = rest /\ UNCHANGED <<candidate_files, pc, exception>>
    /\ UNCHANGED <<previous, fs, args, console, keywords, snapshot_mode, criteria, dirs_scanned, matched_files, future, worker, thread_activity, active_threads, advanced, opened, output>>

\* The loop of a recursive_scan call ends: back in the caller, which counts
\* the directory (dirs_scanned += 1); the outermost call returns to
\* _discover_files, which returns candidate_files.
recursive_scan_return ==
    /\ pc = "discover"
    /\ Top.todo = <<>>
    /\ stack' = Pop
    /\ IF Len(stack) > 1
       THEN dirs_scanned' = dirs_scanned + 1 /\ pc' = pc
       ELSE dirs_scanned' = dirs_scanned /\ pc' = "discovered"
    /\ UNCHANGED <<previous, fs, args, console, keywords, snapshot_mode, criteria, candidate_files, matched_files, future, worker, thread_activity, active_threads, advanced, opened, output, exception>>

(***************************************************************************)
(* process_file_for_search                                                 *)
(***************************************************************************)
\* Mutant of name_matches: the target is compared in its own letter case.
name_matches_case_sensitive(file_path, kws, full_path) ==
    LET compare_target == IF full_path THEN path_str(file_path) ELSE path_name(file_path)
    IN  \E i \in DOMAIN kws : Contains(kws[i], compare_target)

\* Mutant of name_matches: the full path is taken relative to the root.
name_matches_relative(file_path, kws, full_path) ==
    LET compare_target == IF full_path THEN Join(relative_to(file_path)) ELSE path_name(file_path)
    IN  \E i \in DOMAIN kws : Contains(kws[i], lower(compare_target))

\* any(key in compare_target.lower() for key in keywords)
name_matches(file_path, kws, full_path) ==
    LET compare_target == IF full_path THEN path_str(file_path) ELSE path_name(file_path)
    IN  \E i \in DOMAIN kws : Contains(kws[i], lower(compare_target))

\* Mutant of scans_content: the extension is not looked at.
scans_content_any_file(file_path, search_content, read_binary_files) == search_content

\* search_content and (read_binary_files or suffix not in BINARY_FILE_EXTENSIONS)
scans_content(file_path, search_content, read_binary_files) ==
    search_content /\ (read_binary_files \/ lower(suffix(path_name(file_path))) \notin BINARY_FILE_EXTENSIONS)

\* Mutant of can_open: a file that cannot be opened is scanned all the same.
can_open_always(file_path) == fs.nodes[relative_to(file_path)].kind = "file"

\* file_path.open(...) succeeds; otherwise OSError, which is passed over.
can_open(file_path) == fs.nodes[relative_to(file_path)].readable

\* any(key in line.lower() for key in keywords), for some line of the file
line_matches(file_path, kws) ==
    LET lines == fs.nodes[relative_to(file_path)].lines
    IN  \E n \in DOMAIN lines : \E i \in DOMAIN kws : Contains(kws[i], lower(lines[n]))

\* The value returned, as the set {file_path} or {} for None, and whether
\* the file's content was opened.
process_file_for_search(file_path, kws, search_content, full_path, read_binary_files) ==
    IF name_matches(file_path, kws, full_path)
    THEN [result |-> {file_path}, opened |-> FALSE]
    ELSE IF scans_content(file_path, search_content, read_binary_files) /\ can_open(file_path)
    THEN [result |-> IF line_matches(file_path, kws) THEN {file_path} ELSE {}, opened |-> TRUE]
    ELSE [result |-> {}, opened |-> FALSE]

(***************************************************************************)
(* generate_snapshot after the walk, and _process_files_concurrently       *)
(***************************************************************************)
\* `if candidate_files:` is false: matched_files stays empty.
generate_snapshot_no_candidates ==
    /\ pc = "discovered"
    /\ candidate_files = <<>>
    /\ matched_files' = {}
    /\ pc' = "output"
    /\ UNCHANGED <<previous, fs, args, console, keywords, snapshot_mode, criteria, stack, candidate_files, dirs_scanned, future, worker, thread_activity, active_threads, advanced, opened, output, exception>>

\* Snapshot mode: matched_files = set(candidate_files).
generate_snapshot_snapshot ==
    /\ pc = "discovered"
    /\ candidate_files # <<>>
    /\ snapshot_mode
    /\ matched_files' = Range(candidate_files)
    /\ pc' = "output"
    /\ UNCHANGED <<previous, fs, args, console, keywords, snapshot_mode, criteria, stack, candidate_files, dirs_scanned, future, worker, thread_activity, active_threads, advanced, opened, output, exception>>

\* Mutant of pool_size: one thread per submitted file.
pool_size_per_file == Len(candidate_files)

\* max_workers=max_workers or (os.cpu_count() or 1) + 4; a max_workers of
\* None or 0 is the argument 0 here.
pool_size == IF args.max_workers = 0 THEN CpuCount + 4 ELSE args.max_workers

\* Mutant of process_files_submit: the pool is started in either mode.
process_files_submit_any_mode ==
    /\ pc = "discovered"
    /\ candidate_files # <<>>
    /\ matched_files' = {}
    /\ thread_activity' = <<>>
    /\ future' = [i \in DOMAIN candidate_files |-> [state |-> "queued", result |-> {}, collected |-> FALSE]]
    /\ worker' = [w \in 1..pool_size |-> 0]
    /\ pc' = "collect"
    /\ UNCHANGED <<previous, fs, args, console, keywords, snapshot_mode, criteria, stack, candidate_files, dirs_scanned, active_threads, advanced, opened, output, exception>>

\* Search mode: _process_files_concurrently creates the executor and
\* submits one task per candidate file.
process_files_submit ==
    /\ pc = "discovered"
    /\ candidate_files # <<>>
    /\ ~snapshot_mode
    /\ matched_files' = {}
    /\ thread_activity' = <<>>
    /\ future' = [i \in DOMAIN candidate_files |-> [state |-> "queued", result |-> {}, collected |-> FALSE]]
    /\ worker' = [w \in 1..pool_size |-> 0]
    /\ pc' = "collect"
    /\ UNCHANGED <<previous, fs, args, console, keywords, snapshot_mode, criteria, stack, candidate_files, dirs_scanned, active_threads, advanced, opened, output, exception>>

\* The pool's threads run between the submissions and the end of
\* executor.shutdown(wait=True), which the `with` block calls on its exit.
PoolRuns == pc \in {"collect", "shutdown"}

\* The pool's threads are numbered in the order of their first task: a
\* thread that has run no task yet is the next one after those that have.
NextThread(w) == w \in DOMAIN thread_activity \/ w = Cardinality(DOMAIN thread_activity) + 1

\* An idle thread takes the oldest queued task and enters
\* process_file_for_search: activity[thread_id] = file_path.name, which adds
\* a key to thread_activity on the thread's first task.
worker_start(w) ==
    /\ PoolRuns
    /\ worker[w] = 0
    /\ NextThread(w)
    /\ \E i \in DOMAIN future :
          /\ future[i].state = "queued"
          /\ \A j \in DOMAIN future : future[j].state = "queued" => i <= j
          /\ future' = [future EXCEPT ![i].state = "running"]
          /\ worker' = [worker EXCEPT ![w] = i]
          /\ thread_activity' = (w :> path_name(candidate_files[i])) @@ thread_activity
    /\ UNCHANGED <<previous, fs, args, pc, console, keywords, snapshot_mode, criteria, stack, candidate_files, dirs_scanned, matched_files, active_threads, advanced, opened, output, exception>>

\* Mutant of worker_finish: the thread leaves its entry as it is.
worker_finish_no_reset(w) ==
    /\ PoolRuns
    /\ worker[w] # 0
    /\ LET i == worker[w]
           r == process_file_for_search(candidate_files[i], keywords, args.search_file_contents, args.full_path_compare, args.read_binary_files)
       IN  /\ future' = [future EXCEPT ![i].state = "done", ![i].result = r.result]
           /\ opened' = IF r.opened THEN opened \cup {candidate_files[i]} ELSE opened
    /\ worker' = [worker EXCEPT ![w] = 0]
    /\ UNCHANGED <<previous, fs, args, pc, console, keywords, snapshot_mode, criteria, stack, candidate_files, dirs_scanned, matched_files, thread_activity, active_threads, advanced, output, exception>>

\* The thread runs the body of process_file_for_search and leaves it
\* through `finally: activity[thread_id] = ""`; the future completes.
worker_finish(w) ==
    /\ PoolRuns
    /\ worker[w] # 0
    /\ LET i == worker[w]
           r == process_file_for_search(candidate_files[i], keywords, args.search_file_contents, args.full_path_compare, args.read_binary_files)
       IN  /\ future' = [future EXCEPT ![i].state = "done", ![i].result = r.result]
           /\ opened' = IF r.opened THEN opened \cup {candidate_files[i]} ELSE opened
    /\ worker' = [worker EXCEPT ![w] = 0]
    /\ thread_activity' = (w :> "") @@ thread_activity
    /\ UNCHANGED <<previous, fs, args, pc, console, keywords, snapshot_mode, criteria, stack, candidate_files, dirs_scanned, matched_files, active_threads, advanced, output, exception>>

\* `for future in as_completed(future_to_file)` yields a completed future
\* and the loop body starts to iterate thread_activity.items(): the iterator
\* notes the keys the dictionary has.
as_completed_next ==
    /\ pc = "collect"
    /\ active_threads.future = 0
    /\ \E i \in DOMAIN future :
          /\ future[i].state = "done"
          /\ ~future[i].collected
          /\ active_threads' = [future |-> i, seen |-> DOMAIN thread_activity]
    /\ UNCHANGED <<previous, fs, args, pc, console, keywords, snapshot_mode, criteria, stack, candidate_files, dirs_scanned, matched_files, future, worker, thread_activity, advanced, opened, output, exception>>

\* Mutant of collect_result: a result is kept only when every file
\* submitted before it has been collected.
collect_result_in_submission_order ==
    /\ pc = "collect"
    /\ active_threads.future # 0
    /\ DOMAIN thread_activity = active_threads.seen
    /\ LET i == active_threads.future
       IN  /\ future' = [future EXCEPT ![i].collected = TRUE]
           /\ matched_files' = IF \A j \in 1..(i - 1) : future[j].collected THEN matched_files \cup future[i].result ELSE matched_files
    /\ advanced' = advanced + 1
    /\ active_threads' = [future |-> 0, seen |-> {}]
    /\ UNCHANGED <<previous, fs, args, pc, console, keywords, snapshot_mode, criteria, stack, candidate_files, dirs_scanned, worker, thread_activity, opened, output, exception>>

\* The iteration ended with the dictionary as it was: progress.update(
\* advance=1), then `if result := future.result(): matched_files.add(result)`.
collect_result ==
    /\ pc = "collect"
    /\ active_threads.future # 0
    /\ DOMAIN thread_activity = active_threads.seen
    /\ LET i == active_threads.future
       IN  /\ future' = [future EXCEPT ![i].collected = TRUE]
           /\ matched_files' = matched_files \cup future[i].result
    /\ advanced' = advanced + 1
    /\ active_threads' = [future |-> 0, seen |-> {}]
    /\ UNCHANGED <<previous, fs, args, pc, console, keywords, snapshot_mode, criteria, stack, candidate_files, dirs_scanned, worker, thread_activity, opened, output, exception>>

\* A thread added its key while the coordinator iterated the dictionary:
\* "RuntimeError: dictionary changed size during iteration" leaves the loop
\* and the `with` block, whose exit waits for the pool.
collect_raise ==
    /\ pc = "collect"
    /\ active_threads.future # 0
    /\ DOMAIN thread_activity # active_threads.seen
    /\ exception' = "RuntimeError"
    /\ pc' = "shutdown"
    /\ UNCHANGED <<previous, fs, args, console, keywords, snapshot_mode, criteria, stack, candidate_files, dirs_scanned, matched_files, future, worker, thread_activity, active_threads, advanced, opened, output>>

\* executor.shutdown(wait=True) returns once every submitted task has run;
\* the exception then leaves _process_files_concurrently and
\* generate_snapshot.
executor_shutdown ==
    /\ pc = "shutdown"
    /\ \A i \in DOMAIN future : future[i].state = "done"
    /\ pc' = "raised"
    /\ UNCHANGED <<previous, fs, args, console, keywords, snapshot_mode, criteria, stack, candidate_files, dirs_scanned, matched_files, future, worker, thread_activity, active_threads, advanced, opened, output, exception>>

\* Mutant of process_files_return: the function returns after the first
\* result, without waiting for the pool.
process_files_return_first_result ==
    /\ pc = "collect"
    /\ \E i \in DOMAIN future : future[i].collected
    /\ pc' = "output"
    /\ UNCHANGED <<previous, fs, args, console, keywords, snapshot_mode, criteria, stack, candidate_files, dirs_scanned, matched_files, future, worker, thread_activity, active_threads, advanced, opened, output, exception>>

\* as_completed is exhausted; the executor is shut down and
\* _process_files_concurrently returns matched_files.
process_files_return ==
    /\ pc = "collect"
    /\ \A i \in DOMAIN future : future[i].collected
    /\ pc' = "output"
    /\ UNCHANGED <<previous, fs, args, console, keywords, snapshot_mode, criteria, stack, candidate_files, dirs_scanned, matched_files, future, worker, thread_activity, active_threads, advanced, opened, output, exception>>

(***************************************************************************)
(* generate_snapshot: sorting and collation                                *)
(***************************************************************************)
\* The characters of the model's paths in code-point order.
CodePoints == " $*-./0123456789ABCDEFGHIJKLMNOPQRSTUVWXYZ_abcdefghijklmnopqrstuvwxyz~"

ord(c) == CHOOSE i \in 1..Len(CodePoints) : Ch(CodePoints, i) = c

RECURSIVE str_le(_, _)
\* Python's a <= b on strings.
str_le(a, b) ==
    IF a = "" THEN TRUE
    ELSE IF b = "" THEN FALSE
    ELSE IF Ch(a, 1) = Ch(b, 1) THEN str_le(Tail(a), Tail(b))
    ELSE ord(Ch(a, 1)) < ord(Ch(b, 1))

\* p.relative_to(root_dir).as_posix()
relative_posix(path) == LET j == Join(relative_to(path)) IN SubSeq(j, 2, Len(j))

RECURSIVE sorted_files(_)
\* sorted(list(matched_files), key=lambda p: p.relative_to(root_dir).as_posix())
sorted_files(S) ==
    IF S = {} THEN <<>>
    ELSE LET m == CHOOSE x \in S : \A y \in S : str_le(relative_posix(x), relative_posix(y))
         IN  <<m>> \o sorted_files(S \ {m})

(***************************************************************************)
(* _generate_tree_with_stats.  tree_dict is given by the relative paths    *)
(* (sequences of parts) it was built from: a node is a prefix of a path.   *)
(* The box-drawing characters of `style` are written in ASCII.             *)
(***************************************************************************)
style == <<"|-- ", "'-- ", "|   ", "    ">>

IsPrefix(node, path) == Len(node) <= Len(path) /\ SubSeq(path, 1, Len(node)) = node

\* d.keys() of the dictionary at `node`, in insertion order.
tree_keys(paths, node) ==
    LET idx == {i \in DOMAIN paths : IsPrefix(node, paths[i]) /\ Len(paths[i]) > Len(node)}
        first == {i \in idx : \A j \in idx : paths[j][Len(node) + 1] = paths[i][Len(node) + 1] => i <= j}
        order == SelectSeq([i \in DOMAIN paths |-> i], LAMBDA i : i \in first)
    IN  [k \in DOMAIN order |-> paths[order[k]][Len(node) + 1]]

\* `not d[k]`: the dictionary at the node is empty.
is_leaf(paths, node) == ~\E i \in DOMAIN paths : IsPrefix(node, paths[i]) /\ Len(paths[i]) > Len(node)

\* count_children(d): (files, dirs) among the keys of d.
count_children(paths, node) ==
    LET keys == {paths[i][Len(node) + 1] : i \in {j \in DOMAIN paths : IsPrefix(node, paths[j]) /\ Len(paths[j]) > Len(node)}}
        files == Cardinality({k \in keys : is_leaf(paths, Append(node, k))})
    IN  <<files, Cardinality(keys) - files>>

\* f" [dim][M: {files}f, {dirs}d][/dim]"
stats_markup(paths, node) ==
    LET c == count_children(paths, node)
    IN  " [dim][M: " \o ToString(c[1]) \o "f, " \o ToString(c[2]) \o "d][/dim]"

\* Mutant of key_before: the names are compared in the letter case they have.
key_before_case_sensitive(paths, node, keys, a, b) ==
    LET la == is_leaf(paths, Append(node, keys[a]))
        lb == is_leaf(paths, Append(node, keys[b]))
    IN  IF la # lb THEN lb
        ELSE IF keys[a] # keys[b] THEN str_le(keys[a], keys[b])
        ELSE a < b

\* The sort key (not d[k], k.lower()) of sorted(d.keys(), ...), which is
\* stable: equal keys stay in insertion order.
key_before(paths, node, keys, a, b) ==
    LET la == is_leaf(paths, Append(node, keys[a]))
        lb == is_leaf(paths, Append(node, keys[b]))
        na == lower(keys[a])
        nb == lower(keys[b])
    IN  IF la # lb THEN lb
        ELSE IF na # nb THEN str_le(na, nb)
        ELSE a < b

RECURSIVE sorted_keys(_, _, _, _)
sorted_keys(paths, node, keys, todo) ==
    IF todo = {} THEN <<>>
    ELSE LET m == CHOOSE a \in todo : \A b \in todo \ {a} : key_before(paths, node, keys, a, b)
         IN  <<keys[m]>> \o sorted_keys(paths, node, keys, todo \ {m})

RECURSIVE build_lines_recursive(_, _, _, _, _)
\* The lines appended for the items of d from the i-th on.
build_lines_recursive(paths, node, prefix, show_stats, i) ==
    LET keys == tree_keys(paths, node)
        items == sorted_keys(paths, node, keys, DOMAIN keys)
    IN  IF i > Len(items) THEN <<>>
        ELSE LET name == items[i]
                 child == Append(node, name)
                 is_last == (i = Len(items))
                 connector == IF is_last THEN style[2] ELSE style[1]
                 display_name == IF ~is_leaf(paths, child) /\ show_stats THEN name \o stats_markup(paths, child) ELSE name
                 extension == IF is_last THEN style[4] ELSE style[3]
             IN  <<prefix \o connector \o display_name>>
                 \o (IF is_leaf(paths, child) THEN <<>> ELSE build_lines_recursive(paths, child, prefix \o extension, show_stats, 1))
                 \o build_lines_recursive(paths, node, prefix, show_stats, i + 1)

generate_tree_with_stats(root_name, paths, show_stats) ==
    LET root_line == "[bold cyan]" \o root_name \o "[/bold cyan]" \o (IF show_stats THEN stats_markup(paths, <<>>) ELSE "")
    IN  <<root_line>> \o build_lines_recursive(paths, <<>>, "", show_stats, 1)

(***************************************************************************)
(* _collate_content_to_file                                                *)
(***************************************************************************)
RECURSIVE Concat(_)
Concat(strs) == IF strs = <<>> THEN "" ELSE Head(strs) \o Concat(Tail(strs))

RECURSIVE JoinLines(_)
\* "\n".join(lines)
JoinLines(lines) ==
    IF lines = <<>> THEN ""
    ELSE IF Len(lines) = 1 THEN lines[1]
    ELSE lines[1] \o "\n" \o JoinLines(Tail(lines))

\* Characters that open a tag of rich markup after "[".
TagStart == {Ch(LowerCase, k) : k \in 1..Len(LowerCase)} \cup {"#", "/", "@"}

RECURSIVE plain(_)
\* Text.from_markup(line).plain: the text without its markup tags, a tag
\* being "[", a character of TagStart, characters other than "[", and "]".
plain(line) ==
    LET closes(i) == {j \in (i + 2)..Len(line) : Ch(line, j) = "]" /\ \A k \in (i + 1)..(j - 1) : Ch(line, k) \notin {"[", "]"}}
        opens == {i \in 1..(Len(line) - 2) : Ch(line, i) = "[" /\ Ch(line, i + 1) \in TagStart /\ closes(i) # {}}
    IN  IF opens = {} THEN line
        ELSE LET i == CHOOSE x \in opens : \A y \in opens : x <= y
                 j == CHOOSE x \in closes(i) : TRUE
             IN  SubSeq(line, 1, i - 1) \o plain(SubSeq(line, j + 1, Len(line)))

\* The tree section written to the buffer.
tree_section(tree_lines, show_tree_stats) ==
    IF tree_lines = <<>> THEN ""
    ELSE TREE_HEADER_TEXT \o "\n" \o Separator \o "\n\n"
         \o (IF show_tree_stats THEN "Key: [M: Matched files/dirs]\n     (f=files, d=directories)\n\n" ELSE "")
         \o JoinLines(IF fs.rich_available THEN [i \in DOMAIN tree_lines |-> plain(tree_lines[i])] ELSE tree_lines)
         \o "\n\n"

\* file_info.absolute_path.read_text(...): the content, or the message of
\* the exception raised.
read_text(path) ==
    LET node == fs.nodes[relative_to(path)]
    IN  IF node.readable THEN [ok |-> TRUE, text |-> Concat(node.lines)]
        ELSE [ok |-> FALSE, text |-> "[Errno 13] Permission denied: '" \o path_str(path) \o "'"]

\* Mutant of file_block: the header line lacks the FILE: prefix.
file_block_bare_header(path) ==
    LET r == read_text(path)
    IN  Separator \o "\n" \o relative_posix(path) \o "\n" \o Separator \o "\n\n"
        \o (IF r.ok THEN r.text \o "\n\n" ELSE "Error: Could not read file. Issue: " \o r.text \o "\n\n")

\* Mutant of file_block: a file that cannot be read is passed over.
file_block_skip_unreadable(path) ==
    LET r == read_text(path)
    IN  IF r.ok THEN Separator \o "\nFILE: " \o relative_posix(path) \o "\n" \o Separator \o "\n\n" \o r.text \o "\n\n" ELSE ""

\* What the loop body writes to the buffer for one file.
file_block(path) ==
    LET r == read_text(path)
    IN  Separator \o "\nFILE: " \o relative_posix(path) \o "\n" \o Separator \o "\n\n"
        \o (IF r.ok THEN r.text \o "\n\n" ELSE "Error: Could not read file. Issue: " \o r.text \o "\n\n")

\* Mutant of count_no_whitespace: every character is counted.
count_with_whitespace(text) == Len(text)

\* len(re.sub(r"\s", "", text))
count_no_whitespace(text) == Cardinality({i \in 1..Len(text) : Ch(text, i) \notin WhiteSpace})

\* _collate_content_to_file: the content of the output file and the pair
\* (total_bytes, token_count) returned.
collate_content_to_file(tree_lines, files, show_tree_stats, show_token_count, exclude_whitespace) ==
    LET final_content == tree_section(tree_lines, show_tree_stats) \o Concat([i \in DOMAIN files |-> file_block(files[i])])
        token_count == IF ~show_token_count THEN 0
                       ELSE IF exclude_whitespace THEN count_no_whitespace(final_content)
                       ELSE Len(final_content)
        mode == IF exclude_whitespace THEN "chars, no whitespace" ELSE "characters"
        head == IF show_token_count THEN "Token Count (" \o mode \o "): " \o ToString(token_count) \o "\n\n" ELSE ""
        readable == SelectSeq(files, LAMBDA f : read_text(f).ok)
        sizes == [i \in DOMAIN readable |-> Len(read_text(readable[i]).text)]
        Sum[n \in 0..Len(sizes)] == IF n = 0 THEN 0 ELSE Sum[n - 1] + sizes[n]
    IN  [content |-> head \o final_content, total_bytes |-> Sum[Len(sizes)], token_count |-> token_count]

\* outfile.write(...) on output_path: the filesystem with the file `name` of
\* the root directory holding `text`, as a new entry if there was none.
write_text(name, text) ==
    [fs EXCEPT !.nodes = (name :> File(<<text>>, TRUE))
                         @@ (<<>> :> [fs.nodes[<<>>] EXCEPT !.entries = IF \E i \in DOMAIN @ : <<@[i]>> = name THEN @ ELSE @ \o name])
                         @@ fs.nodes]

\* `if matched_files:` holds: the files are sorted, the tree is generated if
\* asked for, and _collate_content_to_file reads each file and writes the
\* output file.  args.output_file_name is the path of the output file relative
\* to the root, or <<>> when the file is not under the root.
generate_snapshot_collate ==
    /\ pc = "output"
    /\ matched_files # {}
    /\ \E files \in {sorted_files(matched_files)} :
          \E tree_lines \in {IF args.generate_tree THEN generate_tree_with_stats(fs.root[Len(fs.root)], [i \in DOMAIN files |-> relative_to(files[i])], args.show_tree_stats) ELSE <<>>} :
             \E r \in {collate_content_to_file(tree_lines, files, args.show_tree_stats, args.show_token_count, args.exclude_whitespace_in_token_count)} :
                output' = [written |-> TRUE, files |-> [i \in DOMAIN files |-> relative_posix(files[i])], reads |-> matched_files, tree_lines |-> tree_lines,
                           content |-> r.content, total_bytes |-> r.total_bytes, token_count |-> r.token_count]
    /\ fs' = (IF args.output_file_name = <<>> THEN fs ELSE write_text(args.output_file_name, output'.content))
    /\ pc' = "done"
    /\ UNCHANGED <<previous, args, console, keywords, snapshot_mode, criteria, stack, candidate_files, dirs_scanned, matched_files, future, worker, thread_activity, active_threads, advanced, opened, exception>>

\* Mutant of generate_snapshot_no_match: a file holding a notice is written.
generate_snapshot_no_match_notice ==
    /\ pc = "output"
    /\ matched_files = {}
    /\ output' = [output EXCEPT !.written = TRUE, !.content = "No files found matching the specified criteria.\n"]
    /\ pc' = "done"
    /\ UNCHANGED <<previous, fs, args, console, keywords, snapshot_mode, criteria, stack, candidate_files, dirs_scanned, matched_files, future, worker, thread_activity, active_threads, advanced, opened, exception>>

\* Mutant of generate_snapshot_no_match: the collator is called with no file.
generate_snapshot_no_match_collates ==
    /\ pc = "output"
    /\ matched_files = {}
    /\ output' = [output EXCEPT !.written = TRUE, !.content = collate_content_to_file(<<>>, <<>>, args.show_tree_stats, args.show_token_count, args.exclude_whitespace_in_token_count).content]
    /\ pc' = "done"
    /\ UNCHANGED <<previous, fs, args, console, keywords, snapshot_mode, criteria, stack, candidate_files, dirs_scanned, matched_files, future, worker, thread_activity, active_threads, advanced, opened, exception>>

\* `if matched_files:` fails: nothing is written.
generate_snapshot_no_match ==
    /\ pc = "output"
    /\ matched_files = {}
    /\ pc' = "done"
    /\ UNCHANGED <<previous, fs, args, console, keywords, snapshot_mode, criteria, stack, candidate_files, dirs_scanned, matched_files, future, worker, thread_activity, active_threads, advanced, opened, output, exception>>

(***************************************************************************)
(* Initial states: the arguments and the filesystem of one call.           *)
(***************************************************************************)
ListsUpTo(S, n) == UNION {[1..k -> S] : k \in 0..n}

\* The defaults of generate_tree, show_tree_stats, show_token_count and
\* exclude_whitespace_in_token_count.
DefaultOptions == [generate_tree |-> TRUE, show_tree_stats |-> FALSE, show_token_count |-> FALSE, exclude_whitespace_in_token_count |-> FALSE]

\* The state at the entry of a first call of generate_snapshot.  OutputNames
\* holds the output paths tried: relative to the root, or <<>> for a path
\* that is not under the root.
InitCall(OutputNames, Trees, FileTypes, IgnorePaths, IgnoreExts, LangPresets, IgnPresets, Keywords, Flags, Workers, Options) ==
    /\ fs \in Trees
    /\ args \in [output_file_name : OutputNames,
                 search_keywords : Keywords,
                 generate_tree : {o.generate_tree : o \in Options},
                 show_tree_stats : {o.show_tree_stats : o \in Options},
                 show_token_count : {o.show_token_count : o \in Options},
                 exclude_whitespace_in_token_count : {o.exclude_whitespace_in_token_count : o \in Options},
                 file_extensions : FileTypes,
                 ignore_if_in_path : IgnorePaths,
                 ignore_extensions : IgnoreExts,
                 language_presets : LangPresets,
                 ignore_presets : IgnPresets,
                 search_file_contents : Flags,
                 full_path_compare : Flags,
                 read_binary_files : Flags,
                 max_workers : Workers]
    /\ [f \in DOMAIN DefaultOptions |-> args[f]] \in Options
    /\ pc = "start"
    /\ console = <<>>
    /\ keywords = <<>>
    /\ snapshot_mode = FALSE
    /\ criteria = [file_extensions |-> {}, ignore_if_in_path |-> {}, ignore_extensions |-> {}]
    /\ stack = <<>>
    /\ candidate_files = <<>>
    /\ dirs_scanned = 0
    /\ matched_files = {}
    /\ future = <<>>
    /\ worker = <<>>
    /\ thread_activity = <<>>
    /\ advanced = 0
    /\ opened = {}
    /\ output = [written |-> FALSE, files |-> <<>>, reads |-> {}, tree_lines |-> <<>>, content |-> "", total_bytes |-> 0, token_count |-> 0]
    /\ active_threads = [future |-> 0, seen |-> {}]
    /\ exception = ""
    /\ previous = [calls |-> 0, matched_files |-> {}, written |-> FALSE, content |-> ""]

\* A first call whose output file is not under the root.
InitWith(Trees, FileTypes, IgnorePaths, IgnoreExts, LangPresets, IgnPresets, Keywords, Flags, Workers, Options) ==
    InitCall({<<>>}, Trees, FileTypes, IgnorePaths, IgnoreExts, LangPresets, IgnPresets, Keywords, Flags, Workers, Options)

\* The walk under many criteria: explicit lists in several letter cases, with
\* blanks and empty tokens, beside at most one preset of each kind; every list
\* of presets up to MaxPresets long, beside two choices of explicit lists; and
\* the missing root and the tree with a link cycle under a few criteria.
InitCriteria ==
    \/ InitWith({ProjectTree},
                {None, Some(<<" .PY">>), Some(<<".md", "">>)},
                {None, Some(<<"API ">>), Some(<<"node_modules", "LIBRARY", " ">>)},
                {None, Some(<<".PY", "">>)},
                {Some(l) : l \in ListsUpTo(DOMAIN LanguagePreset, 1)},
                {Some(l) : l \in ListsUpTo(DOMAIN IgnorePreset, 1)},
                {None}, {TRUE}, {1}, {DefaultOptions})
    \/ InitWith({ProjectTree},
                {None, Some(<<".md", "">>)},
                {None, Some(<<"API ">>)},
                {None},
                {Some(l) : l \in ListsUpTo(DOMAIN LanguagePreset, MaxPresets)},
                {Some(l) : l \in ListsUpTo(DOMAIN IgnorePreset, MaxPresets - 1)},
                {None}, {TRUE}, {1}, {DefaultOptions})
    \/ InitWith({MissingRoot, LoopTree},
                {None, Some(<<" .PY">>)},
                {None, Some(<<"PKG">>)},
                {None},
                {Some(<<>>), Some(<<"PYTHON">>)},
                {Some(<<>>), Some(<<"LOGS">>)},
                {None}, {TRUE}, {1}, {DefaultOptions})

\* The output options tried besides the defaults.
OutputOptions ==
    {DefaultOptions,
     [generate_tree |-> TRUE, show_tree_stats |-> TRUE, show_token_count |-> TRUE, exclude_whitespace_in_token_count |-> TRUE],
     [generate_tree |-> TRUE, show_tree_stats |-> TRUE, show_token_count |-> TRUE, exclude_whitespace_in_token_count |-> FALSE],
     [generate_tree |-> FALSE, show_tree_stats |-> FALSE, show_token_count |-> FALSE, exclude_whitespace_in_token_count |-> FALSE]}

\* Whole runs of generate_snapshot, in snapshot and in search mode, with
\* max_workers given; a search with max_workers left to its default; a
\* search for a keyword that is in the name of a binary file, and one for a
\* keyword that is in the path of the root; and runs under the output options.
Init ==
    \/ InitWith({SearchTree, MissingRoot},
                {None, Some(<<".md", ".PNG", ".txt">>), Some(<<".rs">>)},
                {None},
                {None},
                {Some(<<>>)},
                {Some(<<>>)},
                {None, Some(<<>>), Some(<<"  ", "">>), Some(<<" KEY">>), Some(<<"zz", "D/">>)},
                BOOLEAN, {1, MaxWorkers}, {DefaultOptions})
    \/ InitWith({FlatTree}, {None}, {None}, {None}, {Some(<<>>)}, {Some(<<>>)},
                {Some(<<"a">>)}, {FALSE}, {0}, {DefaultOptions})
    \/ InitWith({SearchTree}, {None}, {None}, {None}, {Some(<<>>)}, {Some(<<>>)},
                {Some(<<"PNG">>), Some(<<"Srv/">>)}, BOOLEAN, {1}, {DefaultOptions})
    \/ InitWith({SearchTree, WithRich(SearchTree), QuotingTree}, {None}, {None}, {None}, {Some(<<>>)}, {Some(<<>>)},
                {None, Some(<<"KEY">>)}, {TRUE}, {1}, OutputOptions)

Next ==
    \/ generate_snapshot_no_root
    \/ generate_snapshot_begin
    \/ recursive_scan_entry
    \/ recursive_scan_return
    \/ generate_snapshot_no_candidates
    \/ generate_snapshot_snapshot
    \/ process_files_submit
    \/ \E w \in DOMAIN worker : worker_start(w)
    \/ \E w \in DOMAIN worker : worker_finish(w)
    \/ as_completed_next
    \/ collect_result
    \/ collect_raise
    \/ executor_shutdown
    \/ process_files_return
    \/ generate_snapshot_collate
    \/ generate_snapshot_no_match

Spec == Init /\ [][Next]_vars

NextDiscover ==
    \/ generate_snapshot_no_root
    \/ generate_snapshot_begin
    \/ recursive_scan_entry
    \/ recursive_scan_return

SpecCriteria == InitCriteria /\ [][NextDiscover]_vars

\* The files of NestedTree in the order in which the walk meets them.
NestedWalk == <<(<<"b.txt">>), <<"Zed", "y.py">>, <<"Zed", "sub", "k.py">>, (<<"A.md">>), <<"alpha", "n.py">>, <<"alpha", "M.py">>>>

\* generate_snapshot at `if matched_files:`, after a snapshot of NestedTree
\* that was told to ignore the files of `dropped` by name, under `options`.
InitOutputWith(dropped, options) ==
    LET kept == SelectSeq(NestedWalk, LAMBDA p : p \notin dropped)
        names == SelectSeq(NestedWalk, LAMBDA p : p \in dropped)
        ignore == IF names = <<>> THEN None ELSE Some([i \in DOMAIN names |-> path_name(names[i])])
    IN  /\ fs = NestedTree
        /\ args = [output_file_name |-> <<>>,
                   search_keywords |-> None,
                   generate_tree |-> options.generate_tree,
                   show_tree_stats |-> options.show_tree_stats,
                   show_token_count |-> options.show_token_count,
                   exclude_whitespace_in_token_count |-> options.exclude_whitespace_in_token_count,
                   file_extensions |-> None,
                   ignore_if_in_path |-> ignore,
                   ignore_extensions |-> None,
                   language_presets |-> Some(<<>>),
                   ignore_presets |-> Some(<<>>),
                   search_file_contents |-> TRUE,
                   full_path_compare |-> TRUE,
                   read_binary_files |-> FALSE,
                   max_workers |-> 1]
        /\ pc = "output"
        /\ console = <<>>
        /\ keywords = <<>>
        /\ snapshot_mode = TRUE
        /\ criteria = normalize_inputs(None, ignore, None, Some(<<>>), Some(<<>>))
        /\ stack = <<>>
        /\ candidate_files = [i \in DOMAIN kept |-> NestedTree.root \o kept[i]]
        /\ dirs_scanned = Cardinality({p \in DOMAIN NestedNodes : p # <<>> /\ NestedNodes[p].kind = "dir"})
        /\ matched_files = {NestedTree.root \o p : p \in Range(kept)}
        /\ future = <<>>
        /\ worker = <<>>
        /\ thread_activity = <<>>
        /\ advanced = 0
        /\ opened = {}
        /\ output = [written |-> FALSE, files |-> <<>>, reads |-> {}, tree_lines |-> <<>>, content |-> "", total_bytes |-> 0, token_count |-> 0]
        /\ active_threads = [future |-> 0, seen |-> {}]
        /\ exception = ""
        /\ previous = [calls |-> 0, matched_files |-> {}, written |-> FALSE, content |-> ""]

\* The output phase for every set of files of NestedTree and every choice of
\* the four output options.
InitOutput ==
    \E dropped \in SUBSET Range(NestedWalk) :
        \E options \in [generate_tree : BOOLEAN, show_tree_stats : BOOLEAN, show_token_count : BOOLEAN, exclude_whitespace_in_token_count : BOOLEAN] :
            InitOutputWith(dropped, options)

NextOutput ==
    \/ generate_snapshot_collate
    \/ generate_snapshot_no_match

SpecOutput == InitOutput /\ [][NextOutput]_vars

\* generate_snapshot has returned and is called again with the same
\* arguments, on the filesystem as the call left it.
generate_snapshot_again ==
    /\ pc = "done"
    /\ previous.calls + 1 < MaxCalls
    /\ previous' = [calls |-> previous.calls + 1, matched_files |-> matched_files, written |-> output.written, content |-> output.content]
    /\ pc' = "start"
    /\ console' = <<>>
    /\ keywords' = <<>>
    /\ snapshot_mode' = FALSE
    /\ criteria' = [file_extensions |-> {}, ignore_if_in_path |-> {}, ignore_extensions |-> {}]
    /\ stack' = <<>>
    /\ candidate_files' = <<>>
    /\ dirs_scanned' = 0
    /\ matched_files' = {}
    /\ future' = <<>>
    /\ worker' = <<>>
    /\ thread_activity' = <<>>
    /\ advanced' = 0
    /\ opened' = {}
    /\ output' = [written |-> FALSE, files |-> <<>>, reads |-> {}, tree_lines |-> <<>>, content |-> "", total_bytes |-> 0, token_count |-> 0]
    /\ active_threads' = [future |-> 0, seen |-> {}]
    /\ exception' = ""
    /\ UNCHANGED <<fs, args>>

\* Calls with the default output name, which is under the root when the
\* root is the working directory, and with an output path elsewhere; in
\* snapshot and in search mode, with one worker.
InitRerun ==
    InitCall({<<>>, <<"project_snapshot.txt">>}, {SearchTree},
             {None, Some(<<".py">>), Some(<<".rs">>)}, {None}, {None}, {Some(<<>>)}, {Some(<<>>)},
             {None, Some(<<"KEY">>), Some(<<"zz">>)}, {TRUE}, {1}, {DefaultOptions})

NextRerun ==
    \/ generate_snapshot_begin
    \/ recursive_scan_entry
    \/ recursive_scan_return
    \/ generate_snapshot_no_candidates
    \/ generate_snapshot_snapshot
    \/ process_files_submit
    \/ \E w \in DOMAIN worker : worker_start(w)
    \/ \E w \in DOMAIN worker : worker_finish(w)
    \/ as_completed_next
    \/ collect_result
    \/ process_files_return
    \/ generate_snapshot_collate
    \/ generate_snapshot_no_match
    \/ generate_snapshot_again

SpecRerun == InitRerun /\ [][NextRerun]_vars

(***************************************************************************)
(* Vocabulary of the claims about the walk.                                *)
(***************************************************************************)
CandidateSet == Range(candidate_files)

\* The regular files of the tree, by relative path.
RegularFiles == {p \in DOMAIN fs.nodes : fs.nodes[p].kind = "file"}

\* Some component of p below the root has a lower-cased name in `ignore`.
HasPrunedComponent(p, ignore) == \E j \in 1..Len(p) : lower(p[j]) \in ignore

\* Every directory above p can be listed.
Listable(p) == \A k \in 0..(Len(p) - 1) : fs.nodes[SubSeq(p, 1, k)].listable

\* The extension rule as the specification words it.
ExtensionAdmitted(p, crit) ==
    LET ext == lower(suffix(path_name(p)))
    IN  /\ ext \notin crit.ignore_extensions
        /\ (crit.file_extensions = {} \/ ext \in crit.file_extensions)

\* The files a walk under crit is to return, over the whole tree.
Admitted(crit) == {fs.root \o p : p \in {q \in RegularFiles : ~HasPrunedComponent(q, crit.ignore_if_in_path) /\ ExtensionAdmitted(q, crit)}}

\* The same, over the directories that can be listed.
AdmittedListable(crit) == {fs.root \o p : p \in {q \in RegularFiles : Listable(q) /\ ~HasPrunedComponent(q, crit.ignore_if_in_path) /\ ExtensionAdmitted(q, crit)}}

\* C1: no candidate has a component below the root whose lower-cased name
\* is in ignore_if_in_path, at any depth, at any moment of the walk.
C1_PrunedNeverCandidate ==
    \A i \in DOMAIN candidate_files :
        ~HasPrunedComponent(relative_to(candidate_files[i]), criteria.ignore_if_in_path)

\* C1 witness: the walk is over, it returned candidates, and a file two
\* levels below a pruned directory, admitted by its extension, is absent.
C1_Witness ==
    /\ pc = "discovered"
    /\ candidate_files # <<>>
    /\ \E p \in RegularFiles :
          /\ Len(p) >= 3
          /\ lower(p[Len(p) - 1]) \in criteria.ignore_if_in_path
          /\ ExtensionAdmitted(p, criteria)
          /\ fs.root \o p \notin CandidateSet

\* C2: a candidate's extension is never in both the include set and the
\* ignore set: ignore wins.
C2_IgnoreWins ==
    \A i \in DOMAIN candidate_files :
        LET ext == lower(suffix(path_name(candidate_files[i])))
        IN  ~(ext \in criteria.file_extensions /\ ext \in criteria.ignore_extensions)

\* C2 witness: the walk is over and it met a file, in no pruned directory,
\* whose extension is in both sets.
C2_Witness ==
    /\ pc = "discovered"
    /\ \E p \in RegularFiles :
          LET ext == lower(suffix(path_name(p)))
          IN  /\ Listable(p)
              /\ ~HasPrunedComponent(p, criteria.ignore_if_in_path)
              /\ ext \in criteria.file_extensions
              /\ ext \in criteria.ignore_extensions

\* C3 as claimed: the candidates are exactly the admitted regular files
\* under the root.
C3_ExactlyAdmitted == pc = "discovered" => CandidateSet = Admitted(criteria)

\* C3 as amended: the candidates are exactly the admitted regular files in
\* directories that can be listed, each returned once.
C3_ExactlyAdmittedListable ==
    pc = "discovered" =>
        /\ CandidateSet = AdmittedListable(criteria)
        /\ Cardinality(CandidateSet) = Len(candidate_files)

\* C3 witness: a walk with an empty include set returned several files and
\* left some regular file out.
C3_Witness ==
    /\ pc = "discovered"
    /\ criteria.file_extensions = {}
    /\ Len(candidate_files) >= 3
    /\ \E p \in RegularFiles : fs.root \o p \notin CandidateSet

\* The include tokens given to the call, explicit and by preset, as written.
SuppliedIncludeTokens == Range(OrEmpty(args.file_extensions)) \cup UNION {Range(LanguagePreset[n]) : n \in Range(OrEmpty(args.language_presets))}

\* C4 as claimed: a file whose lower-cased name equals an include token
\* without a leading dot is a candidate (unless pruned or ignored by
\* extension), whatever its extension.
C4_ExactNameIncluded ==
    pc = "discovered" =>
        \A p \in RegularFiles :
            (/\ Listable(p)
             /\ ~HasPrunedComponent(p, criteria.ignore_if_in_path)
             /\ lower(suffix(path_name(p))) \notin criteria.ignore_extensions
             /\ \E t \in SuppliedIncludeTokens :
                   /\ strip(t) # ""
                   /\ Ch(strip(t), 1) # "."
                   /\ lower(path_name(p)) = strip(lower(t)))
            => fs.root \o p \in CandidateSet

\* C5: the criteria computed by the call are those of every list with the
\* same presets in any order and multiplicity; a list with more presets
\* only adds tokens; no explicit token is lost.
C5_PresetUnion ==
    pc = "discovered" =>
        LET lp == OrEmpty(args.language_presets)
            gp == OrEmpty(args.ignore_presets)
            norm(l, g) == normalize_inputs(args.file_extensions, args.ignore_if_in_path, args.ignore_extensions, Some(l), Some(g))
        IN  /\ \A l \in ListsUpTo(DOMAIN LanguagePreset, MaxPresets) :
                  /\ Range(l) = Range(lp) => norm(l, gp) = criteria
                  /\ Range(lp) \subseteq Range(l) => criteria.file_extensions \subseteq norm(l, gp).file_extensions
            /\ \A g \in ListsUpTo(DOMAIN IgnorePreset, MaxPresets - 1) :
                  /\ Range(g) = Range(gp) => norm(lp, g) = criteria
                  /\ Range(gp) \subseteq Range(g) => criteria.ignore_if_in_path \subseteq norm(lp, g).ignore_if_in_path
            /\ {strip(lower(t)) : t \in Range(OrEmpty(args.file_extensions))} \subseteq criteria.file_extensions
            /\ {strip(lower(t)) : t \in Range(OrEmpty(args.ignore_if_in_path))} \subseteq criteria.ignore_if_in_path
            /\ \A n \in Range(lp) : Range(LanguagePreset[n]) \subseteq criteria.file_extensions
            /\ \A n \in Range(gp) : Range(IgnorePreset[n]) \subseteq criteria.ignore_if_in_path

\* C5 witness: criteria were computed from a list naming one preset twice
\* and another once, with explicit tokens beside them.
C5_Witness ==
    /\ pc = "discovered"
    /\ \E l \in {OrEmpty(args.language_presets), OrEmpty(args.ignore_presets)} :
          Len(l) = 3 /\ l[1] = l[2] /\ l[3] # l[1]
    /\ OrEmpty(args.file_extensions) # <<>>
    /\ OrEmpty(args.ignore_if_in_path) # <<>>

\* C6 as claimed: every token of the criteria is trimmed, lower-cased and
\* not empty.
C6_TokensNormalised ==
    pc = "discovered" =>
        \A t \in criteria.file_extensions \cup criteria.ignore_if_in_path \cup criteria.ignore_extensions :
            t = strip(lower(t)) /\ t # ""

\* The criteria with every token folded to lower case.
Folded(crit) == [file_extensions |-> {lower(t) : t \in crit.file_extensions}, ignore_if_in_path |-> {lower(t) : t \in crit.ignore_if_in_path}, ignore_extensions |-> {lower(t) : t \in crit.ignore_extensions}]

\* C7 as claimed: the walk returns what it would return were every token
\* given in the letter case of the names it is compared with.
C7_CaseInsensitive == pc = "discovered" => CandidateSet = AdmittedListable(Folded(criteria))

(***************************************************************************)
(* Vocabulary of the claims about keywords and matching.                   *)
(***************************************************************************)
\* The keyword argument holds no usable keyword: it is None, empty, or only
\* blank strings.
NoUsableKeyword == \A k \in Range(OrEmpty(args.search_keywords)) : \A i \in 1..Len(k) : Ch(k, i) \in WhiteSpace

\* A keyword list was passed, and it is empty or holds only blank strings.
BlankKeywordList == ~args.search_keywords.is_none /\ NoUsableKeyword

\* Some supplied keyword, trimmed, is in `text`, letter case aside.
KeywordIn(text) ==
    \E k \in Range(OrEmpty(args.search_keywords)) :
        strip(k) # "" /\ Contains(lower(strip(k)), lower(text))

\* The name check of the claim: the name, or the full path when
\* full_path_compare is set.
NameHit(f) == KeywordIn(IF args.full_path_compare THEN path_str(f) ELSE path_name(f))

\* Some line of the file's content holds a keyword.
ContentHit(f) == \E n \in DOMAIN fs.nodes[relative_to(f)].lines : KeywordIn(fs.nodes[relative_to(f)].lines[n])

\* C8 as claimed: with a blank keyword list the call fails before scanning:
\* it never walks, reads no content and ends with an error reported.
C8_BlankKeywordsAbort ==
    BlankKeywordList =>
        /\ pc \in {"start", "done"}
        /\ stack = <<>> /\ candidate_files = <<>>
        /\ opened = {} /\ output.reads = {}
        /\ (pc = "done" => console # <<>>)

\* C8 as amended: with a blank keyword list and a root that is a directory
\* the call reports no error and runs in snapshot mode: the matcher opens no
\* file, and the collator reads every candidate.
C8_BlankKeywordsSnapshot ==
    (BlankKeywordList /\ fs.root_is_dir /\ pc # "start") =>
        /\ snapshot_mode
        /\ console = <<>>
        /\ opened = {}
        /\ (pc = "done" => output.reads = CandidateSet)

\* C8 witness: a finished call with a list of blank keywords whose
\* collator read several files.
C8_Witness ==
    /\ pc = "done"
    /\ BlankKeywordList
    /\ OrEmpty(args.search_keywords) # <<>>
    /\ Cardinality(output.reads) >= 2

\* C9: with no usable keyword the call is in snapshot mode: the matched set
\* is the candidate set, and neither the thread pool nor the matcher runs.
C9_SnapshotMode ==
    (NoUsableKeyword /\ fs.root_is_dir /\ pc # "start") =>
        /\ snapshot_mode
        /\ future = <<>> /\ worker = <<>> /\ thread_activity = <<>>
        /\ advanced = 0 /\ opened = {}
        /\ (pc \in {"output", "done"} => matched_files = CandidateSet)

\* C9 witness: a finished call with search_keywords None that matched
\* several files, a filter having left some file out.
C9_Witness ==
    /\ pc = "done"
    /\ args.search_keywords.is_none
    /\ Cardinality(matched_files) >= 2
    /\ \E p \in RegularFiles : fs.root \o p \notin matched_files

\* C10 as claimed: in search mode the matched files are the candidates with
\* a keyword in the name (or path), or, content search enabled, in a line.
C10_MatchedIff ==
    (pc \in {"output", "done"} /\ fs.root_is_dir /\ ~NoUsableKeyword) =>
        matched_files = {f \in CandidateSet : NameHit(f) \/ (args.search_file_contents /\ ContentHit(f))}

\* C10 as amended: ... or, content search enabled, in a line of a file that
\* can be read and is not binary by extension (unless read_binary_files).
C10_MatchedIffReadable ==
    (pc \in {"output", "done"} /\ fs.root_is_dir /\ ~NoUsableKeyword) =>
        matched_files = {f \in CandidateSet :
                            \/ NameHit(f)
                            \/ /\ args.search_file_contents
                               /\ args.read_binary_files \/ lower(suffix(path_name(f))) \notin BINARY_FILE_EXTENSIONS
                               /\ fs.nodes[relative_to(f)].readable
                               /\ ContentHit(f)}

\* C10 witness: a finished search matched one file by name and another by
\* content only, and left a candidate out.
C10_Witness ==
    /\ pc = "done"
    /\ ~snapshot_mode
    /\ \E f \in matched_files : NameHit(f)
    /\ \E f \in matched_files : ~NameHit(f) /\ ContentHit(f)
    /\ \E f \in CandidateSet : f \notin matched_files

(***************************************************************************)
(* Vocabulary of the claims about the parallel phase.                      *)
(***************************************************************************)
\* The files submitted to the pool, by position in candidate_files.
Submitted == DOMAIN future

Collected == {i \in Submitted : future[i].collected}

Running == {i \in Submitted : future[i].state = "running"}

\* _process_files_concurrently was called and is no longer collecting.
ParallelPhaseOver == future # <<>> /\ pc \in {"shutdown", "raised", "output", "done"}

\* C11 as claimed: under every schedule _process_files_concurrently ends by
\* returning, with every submitted file collected once and the progress
\* counter advanced once per file; while it collects, the counter is the
\* number of files collected.
C11_AllAccounted ==
    /\ pc = "collect" => advanced = Cardinality(Collected)
    /\ ParallelPhaseOver =>
          /\ exception = ""
          /\ Collected = Submitted
          /\ advanced = Len(candidate_files)

\* The matcher gets as far as opening f (no keyword in its name, content
\* search enabled, not skipped as binary) and the open fails.
ScanFails(f) ==
    /\ args.search_file_contents
    /\ ~fs.nodes[relative_to(f)].readable
    /\ args.read_binary_files \/ lower(suffix(path_name(f))) \notin BINARY_FILE_EXTENSIONS
    /\ ~NameHit(f)

\* A file whose scan fails yields no match and no exception.
FailureIsNoMatch ==
    \A i \in Submitted :
        ScanFails(candidate_files[i]) =>
            /\ future[i].result = {}
            /\ candidate_files[i] \notin matched_files
            /\ candidate_files[i] \notin opened
            /\ exception \in {"", "RuntimeError"}

\* When the search has returned, every candidate whose scan did not fail is
\* matched exactly when its own name or content holds a keyword.
OthersUnaffected ==
    (future # <<>> /\ pc \in {"output", "done"}) =>
        \A g \in CandidateSet :
            ~ScanFails(g) => (g \in matched_files <=> (NameHit(g) \/ (scans_content(g, args.search_file_contents, args.read_binary_files) /\ ContentHit(g))))

\* C12: a file whose scan fails counts as no match, without an exception;
\* the other files are matched as if there had been no failure; and no step
\* runs again a task that is done.
C12_FailureIsNoMatch ==
    /\ []FailureIsNoMatch
    /\ []OthersUnaffected
    /\ [][\A i \in Submitted : future[i].state = "done" => (i \in DOMAIN future' /\ future'[i].state = "done" /\ future'[i].result = future[i].result)]_vars

\* C12 witness: a finished search in which the scan of one candidate failed
\* and another candidate was matched by its content.
C12_Witness ==
    /\ pc = "done"
    /\ output.written
    /\ \E f \in CandidateSet : ScanFails(f) /\ ContentHit(f)
    /\ \E g \in matched_files : ~NameHit(g) /\ ContentHit(g)

\* The files of the batch for which the matcher returns a match.
MatcherSays == UNION {process_file_for_search(f, keywords, args.search_file_contents, args.full_path_compare, args.read_binary_files).result : f \in CandidateSet}

\* C13: whatever the order in which the workers run and complete, the set
\* built by _process_files_concurrently is the union of the results collected
\* so far, and the set it returns is exactly the set of submitted files for
\* which the matcher returns a match.
C13_SameSetEveryOrder ==
    future # <<>> =>
        /\ matched_files = UNION {future[i].result : i \in Collected}
        /\ matched_files \subseteq CandidateSet
        /\ pc \in {"output", "done"} => matched_files = MatcherSays

\* C13 witness: two matching files have both been scanned, and the one
\* submitted later was collected, and added to the set, before the other.
C13_Witness ==
    /\ pc = "collect"
    /\ \E i, j \in Submitted :
          /\ i < j
          /\ future[j].collected /\ future[j].result # {}
          /\ future[j].result \subseteq matched_files
          /\ future[i].state = "done" /\ ~future[i].collected
          /\ future[i].result # {}

\* The worker bound of the claim: max_workers when given, otherwise the CPU
\* count plus 4.
WorkerBound == IF args.max_workers >= 1 THEN args.max_workers ELSE CpuCount + 4

\* C14: at every moment at most WorkerBound files are inside the matcher.
C14_AtMostBoundRunning ==
    /\ Cardinality(Running) <= WorkerBound
    /\ Cardinality({w \in DOMAIN worker : worker[w] # 0}) <= WorkerBound

\* C14 witness: with max_workers left to its default, as many files as the
\* bound allows are inside the matcher while another waits in the queue.
C14_Witness ==
    /\ pc = "collect"
    /\ args.max_workers = 0
    /\ Cardinality(Running) = CpuCount + 4
    /\ \E i \in Submitted : future[i].state = "queued"

(***************************************************************************)
(* Vocabulary of the claims about the output.                              *)
(***************************************************************************)
\* The output as it is before the call: no file at the output path.
NoOutput == [written |-> FALSE, files |-> <<>>, reads |-> {}, tree_lines |-> <<>>, content |-> "", total_bytes |-> 0, token_count |-> 0]

\* The call went through the walk and the matching and ended normally.
EndedNormally == pc = "done" /\ fs.root_is_dir

C16_NoOutputWithoutMatch ==
    /\ (matched_files = {} \/ pc # "done") => output = NoOutput
    /\ output # NoOutput => (output.written /\ output.reads = matched_files /\ Len(output.files) = Cardinality(matched_files))

\* C16 witness: a finished call whose walk returned no candidate, on a root
\* that holds files.
C16_Witness ==
    /\ EndedNormally
    /\ candidate_files = <<>>
    /\ RegularFiles # {}
    /\ output = NoOutput

(***************************************************************************)
(* The deconstruct operation, which src/ does not hold, after the          *)
(* specification: a line-oriented parser with the states                   *)
(* seeking-tree-header, reading-tree, seeking-content, reading-content,    *)
(* which recovers the tree lines and the ordered FILE: paths.              *)
(***************************************************************************)
\* The lines of a text, without their line ends.
split_lines(text) ==
    LET ends == {i \in 1..Len(text) : Ch(text, i) = "\n"} \cup (IF text # "" /\ Ch(text, Len(text)) # "\n" THEN {Len(text) + 1} ELSE {})
        start(e) == IF \E d \in ends : d < e THEN (CHOOSE d \in ends : d < e /\ \A c \in ends : c < e => c <= d) + 1 ELSE 1
        order == SelectSeq([i \in 1..(Len(text) + 1) |-> i], LAMBDA i : i \in ends)
    IN  [k \in DOMAIN order |-> SubSeq(text, start(order[k]), order[k] - 1)]

FILE_HEADER_PREFIX == "FILE: "

StartsWith(line, prefix) == Len(line) >= Len(prefix) /\ SubSeq(line, 1, Len(prefix)) = prefix

RECURSIVE deconstruct_lines(_, _, _, _)
deconstruct_lines(lines, state, tree_lines, file_paths) ==
    IF lines = <<>> THEN [tree_lines |-> tree_lines, file_paths |-> file_paths]
    ELSE LET line == Head(lines)
             rest == Tail(lines)
         IN  IF state = "seeking-tree-header"
             THEN deconstruct_lines(rest, IF line = TREE_HEADER_TEXT THEN "reading-tree" ELSE state, tree_lines, file_paths)
             ELSE IF state = "reading-tree"
             THEN IF line = Separator
                  THEN deconstruct_lines(rest, IF tree_lines = <<>> THEN state ELSE "seeking-content", tree_lines, file_paths)
                  ELSE deconstruct_lines(rest, state, IF strip(line) = "" THEN tree_lines ELSE Append(tree_lines, line), file_paths)
             ELSE IF state = "seeking-content"
             THEN IF StartsWith(line, FILE_HEADER_PREFIX)
                  THEN deconstruct_lines(rest, "reading-content", tree_lines, Append(file_paths, strip(SubSeq(line, Len(FILE_HEADER_PREFIX) + 1, Len(line)))))
                  ELSE deconstruct_lines(rest, state, tree_lines, file_paths)
             ELSE deconstruct_lines(rest, IF line = Separator THEN "seeking-content" ELSE state, tree_lines, file_paths)

deconstruct_snapshot(content) == deconstruct_lines(split_lines(content), "seeking-tree-header", <<>>, <<>>)

\* The buffer parses back to the files collated, in their order, and to
\* tree lines that hold the name of every matched file.
RoundTrips ==
    LET data == deconstruct_snapshot(output.content)
    IN  /\ data.file_paths = output.files
        /\ \A f \in matched_files : \E n \in DOMAIN data.tree_lines : Contains(path_name(f), data.tree_lines[n])

\* No line of a matched file's content is a separator line or starts with
\* the prefix of a file header.
PlainContents ==
    \A f \in matched_files :
        \A line \in Range(split_lines(read_text(f).text)) :
            line # Separator /\ ~StartsWith(line, FILE_HEADER_PREFIX)

FileHeaders(content) ==
    LET heads == SelectSeq(split_lines(content), LAMBDA line : StartsWith(line, FILE_HEADER_PREFIX))
    IN  [k \in DOMAIN heads |-> SubSeq(heads[k], Len(FILE_HEADER_PREFIX) + 1, Len(heads[k]))]

\* C18 as claimed: the files handed to the collator, and the FILE: blocks
\* of the output, are in the order of their relative posix paths compared
\* without regard to letter case.
C18_SortedCaseInsensitive ==
    output.written =>
        /\ \A i, j \in DOMAIN output.files : i < j => str_le(lower(output.files[i]), lower(output.files[j]))
        /\ \A i, j \in DOMAIN FileHeaders(output.content) : i < j => str_le(lower(FileHeaders(output.content)[i]), lower(FileHeaders(output.content)[j]))

\* C19: on a root that is not a directory the call logs the error and
\* returns: it enumerates no directory, reads no file, starts no worker and
\* writes no output.
C19_MissingRootAborts ==
    ~fs.root_is_dir =>
        /\ pc \in {"start", "done"}
        /\ stack = <<>> /\ candidate_files = <<>> /\ dirs_scanned = 0
        /\ future = <<>> /\ worker = <<>> /\ thread_activity = <<>>
        /\ opened = {} /\ matched_files = {}
        /\ output = NoOutput
        /\ exception = ""
        /\ pc = "done" => console = <<"Error: Root directory not found.">>

\* C19 witness: a search with keywords on a missing root has returned with
\* the error logged.
C19_Witness ==
    /\ ~fs.root_is_dir
    /\ pc = "done"
    /\ console # <<>>
    /\ usable_keywords(args.search_keywords) # <<>>

\* C20 as claimed: the walk never ends by an exception, whether a directory
\* cannot be listed or the tree holds a cycle of symbolic links; it returns
\* the candidates of the directories that can be listed.
C20_WalkReturns ==
    /\ exception = "" /\ pc # "raised"
    /\ pc = "discovered" => \A p \in RegularFiles : (Listable(p) /\ ~HasPrunedComponent(p, criteria.ignore_if_in_path) /\ ExtensionAdmitted(p, criteria)) => fs.root \o p \in CandidateSet

(***************************************************************************)
(* Vocabulary of the claims about the phases of a run.                     *)
(***************************************************************************)
\* The walk is under way or has not begun.
WalkPending == pc \in {"start", "discover"}

\* Some thread of the pool is inside process_file_for_search.
WorkerBusy == \E w \in DOMAIN worker : worker[w] # 0

\* No matcher task exists before the walk has returned, and the matched set
\* is read (sorted, drawn as a tree, collated) only with every worker idle
\* and every task done.
PhasesOrdered ==
    /\ WalkPending => (future = <<>> /\ worker = <<>> /\ ~WorkerBusy /\ matched_files = {})
    /\ future # <<>> => (stack = <<>> /\ Len(future) = Len(candidate_files))
    /\ pc \in {"output", "done"} => (~WorkerBusy /\ \A i \in Submitted : future[i].state = "done")
    /\ output.written => pc = "done"

\* C21: the phases of a run are strictly ordered (PhasesOrdered); once the
\* walk has returned no step changes the candidate list; and no step of a
\* worker changes the matched set.
C21_PhasesOrdered ==
    /\ []PhasesOrdered
    /\ [][~WalkPending => candidate_files' = candidate_files]_vars
    /\ [][worker' # worker => matched_files' = matched_files]_vars

\* C21 witness: a finished search by several workers over several files
\* wrote its output from a matched set smaller than the candidate list.
C21_Witness ==
    /\ pc = "done"
    /\ output.written
    /\ Len(worker) >= 2
    /\ Len(future) >= 3
    /\ matched_files # {}
    /\ Cardinality(matched_files) < Len(candidate_files)

(***************************************************************************)
(* Vocabulary of the claims about the tree.                                *)
(***************************************************************************)
\* The matched paths, relative to the root.
MatchedPaths == {relative_to(f) : f \in matched_files}

\* The nodes of the tree: the distinct non-empty prefixes of the paths.
TreeNodes == {SubSeq(p, 1, k) : <<p, k>> \in {<<q, j>> \in MatchedPaths \X (1..3) : j <= Len(q)}}

NodeIsDir(n) == \E p \in MatchedPaths : Len(p) > Len(n) /\ IsPrefix(n, p)

Siblings(n) == {m \in TreeNodes : Len(m) = Len(n) /\ SubSeq(m, 1, Len(m) - 1) = SubSeq(n, 1, Len(n) - 1)}

\* Among siblings: directories first, then by name without regard to case.
SiblingBefore(a, b) ==
    IF NodeIsDir(a) # NodeIsDir(b) THEN NodeIsDir(a)
    ELSE lower(path_name(a)) # lower(path_name(b)) /\ str_le(lower(path_name(a)), lower(path_name(b)))

HasLaterSibling(n) == \E m \in Siblings(n) : SiblingBefore(n, m)

\* Depth-first order: a directory before what it holds, and the subtrees of
\* siblings in the order of the siblings.
NodeBefore(a, b) ==
    /\ a # b
    /\ \/ IsPrefix(a, b)
       \/ /\ ~IsPrefix(b, a)
          /\ LET k == CHOOSE j \in 1..Len(a) : a[j] # b[j] /\ \A i \in 1..(j - 1) : a[i] = b[i]
             IN  SiblingBefore(SubSeq(a, 1, k), SubSeq(b, 1, k))

\* The line of a node: a segment per ancestor below the root, the connector,
\* the name.
ExpectedLine(n) ==
    Concat([k \in 1..(Len(n) - 1) |-> IF HasLaterSibling(SubSeq(n, 1, k)) THEN style[3] ELSE style[4]])
    \o (IF HasLaterSibling(n) THEN style[1] ELSE style[2])
    \o path_name(n)

\* The line of the tree on which node n is expected: after the root line and
\* the lines of the nodes before it.
LineOf(n) == output.tree_lines[2 + Cardinality({m \in TreeNodes : NodeBefore(m, n)})]

\* C22: after the root line the tree has exactly one line per node, in
\* depth-first order with directories first and then names compared without
\* regard to case; each line is the indentation (one 4-character segment
\* per ancestor below the root, a bar where that ancestor has later
\* siblings), the tee or, for a last child, the elbow, and the name.
C22_OneLinePerNode ==
    (pc = "done" /\ output.written /\ args.generate_tree) =>
        /\ Len(output.tree_lines) = 1 + Cardinality(TreeNodes)
        /\ Contains(fs.root[Len(fs.root)], output.tree_lines[1])
        /\ \A n \in TreeNodes :
              /\ StartsWith(LineOf(n), ExpectedLine(n))
              /\ (~args.show_tree_stats \/ ~NodeIsDir(n)) => LineOf(n) = ExpectedLine(n)

\* C22 witness: the tree of six files at three depths, under directories
\* whose names differ in letter case, was generated.
C22_Witness ==
    /\ pc = "done" /\ output.written /\ args.generate_tree
    /\ Cardinality(matched_files) = 6
    /\ Len(output.tree_lines) = 10
    /\ \E n \in TreeNodes : Len(n) = 3
    /\ \E a, b \in TreeNodes : NodeIsDir(a) /\ NodeIsDir(b) /\ Len(a) = 1 /\ Len(b) = 1 /\ SiblingBefore(a, b) /\ ~str_le(path_name(a), path_name(b))

(***************************************************************************)
(* Vocabulary of the claims about the collated buffer.                     *)
(***************************************************************************)
\* The header the collator writes for file f.
HeaderOf(f) == Separator \o "\nFILE: " \o relative_posix(f) \o "\n" \o Separator \o "\n\n"

CanBeRead(f) == fs.nodes[relative_to(f)].readable

\* C23: the collator ends without an exception and writes one header per
\* file passed in, in their order; the header of a file that cannot be read
\* is followed by the inline error note, that of any other file by its
\* content.
C23_UnreadableInline ==
    (pc = "done" /\ output.written) =>
        /\ exception = ""
        /\ Len(output.files) = Cardinality(matched_files)
        /\ PlainContents => FileHeaders(output.content) = output.files
        /\ \A f \in matched_files :
              IF CanBeRead(f)
              THEN Contains(HeaderOf(f) \o Concat(fs.nodes[relative_to(f)].lines) \o "\n\n", output.content)
              ELSE Contains(HeaderOf(f) \o "Error: Could not read file. Issue: ", output.content)

\* C23 witness: a buffer was written for several files, of which one that
\* cannot be read comes before others that can.
C23_Witness ==
    /\ pc = "done" /\ output.written
    /\ PlainContents
    /\ \E i, j \in DOMAIN output.files :
          /\ i < j
          /\ \E f, g \in matched_files : relative_posix(f) = output.files[i] /\ relative_posix(g) = output.files[j] /\ ~CanBeRead(f) /\ CanBeRead(g)

\* The line the collator puts before the buffer when it counts tokens.
TokenCountLine == "Token Count (" \o (IF args.exclude_whitespace_in_token_count THEN "chars, no whitespace" ELSE "characters") \o "): " \o ToString(output.token_count) \o "\n\n"

\* The output file without its token count line: the final buffer.
FinalBuffer == IF args.show_token_count THEN SubSeq(output.content, Len(TokenCountLine) + 1, Len(output.content)) ELSE output.content

NonWhitespace(text) == Cardinality({i \in 1..Len(text) : Ch(text, i) \notin WhiteSpace})

\* C24: with token counting the metric is the number of characters of the
\* final buffer, or of its characters that are not whitespace when those
\* are excluded (never more than the former), and the file begins with the
\* Token Count line, which is not counted; without it the metric is 0 and
\* the file has no such line.  The buffer is the tree section, if there is
\* one, and the file blocks.
C24_TokenCount ==
    (pc = "done" /\ output.written) =>
        /\ args.show_token_count =>
              /\ StartsWith(output.content, TokenCountLine)
              /\ output.token_count = (IF args.exclude_whitespace_in_token_count THEN NonWhitespace(FinalBuffer) ELSE Len(FinalBuffer))
              /\ output.token_count <= Len(FinalBuffer)
        /\ ~args.show_token_count => (output.token_count = 0 /\ ~Contains("Token Count", output.content))
        /\ StartsWith(FinalBuffer, IF args.generate_tree THEN TREE_HEADER_TEXT \o "\n" ELSE Separator \o "\nFILE: ")
        /\ \A f \in matched_files : Contains(HeaderOf(f), FinalBuffer)

\* C24 witness: a buffer with a tree and several file blocks was counted
\* without its whitespace, of which it holds some.
C24_Witness ==
    /\ pc = "done" /\ output.written
    /\ args.show_token_count /\ args.exclude_whitespace_in_token_count /\ args.generate_tree
    /\ Cardinality(matched_files) >= 3
    /\ 0 < output.token_count /\ output.token_count < Len(FinalBuffer)

(***************************************************************************)
(* Vocabulary of the claims about what the matcher reads and compares.     *)
(***************************************************************************)
\* The file is binary by its extension.
IsBinary(f) == lower(suffix(path_name(f))) \in BINARY_FILE_EXTENSIONS

\* The search has returned its matched set.
SearchReturned == future # <<>> /\ pc \in {"output", "done"}

\* C25: the matcher opens the content of a file only with content search
\* enabled, and of a binary file only with read_binary_files set.  A binary
\* file with a keyword in its name (or path) is matched all the same; with
\* read_binary_files set it is scanned like any other file; otherwise it is
\* matched by its name only.
C25_BinarySkipped ==
    /\ \A f \in opened : args.search_file_contents /\ (IsBinary(f) => args.read_binary_files)
    /\ SearchReturned =>
          \A f \in CandidateSet :
              IsBinary(f) =>
                  /\ NameHit(f) => f \in matched_files
                  /\ (~NameHit(f) /\ ~args.read_binary_files) => f \notin matched_files
                  /\ (~NameHit(f) /\ args.read_binary_files /\ args.search_file_contents /\ CanBeRead(f)) => (f \in opened /\ (f \in matched_files <=> ContentHit(f)))

\* C25 witness: a finished content search that was not to read binary files
\* matched a binary file by its name, without opening it, and opened others.
C25_Witness ==
    /\ pc = "done"
    /\ args.search_file_contents /\ ~args.read_binary_files
    /\ opened # {}
    /\ \E f \in matched_files : IsBinary(f) /\ NameHit(f) /\ f \notin opened

\* The nodes below n, at every level.
Below(n) == {m \in TreeNodes : IsPrefix(n, m) /\ m # n}

\* The annotation of a directory line for the nodes of S.
Annotation(S) == " [dim][M: " \o ToString(Cardinality({m \in S : ~NodeIsDir(m)})) \o "f, " \o ToString(Cardinality({m \in S : NodeIsDir(m)})) \o "d][/dim]"

RootLine == "[bold cyan]" \o fs.root[Len(fs.root)] \o "[/bold cyan]"

StatsShown == pc = "done" /\ output.written /\ args.generate_tree /\ args.show_tree_stats

\* C26 as claimed: with tree stats every directory line, the root line
\* included, carries the counts of the files and directories among all the
\* descendants of the directory; file lines carry no annotation.
C26_StatsCountDescendants ==
    StatsShown =>
        /\ output.tree_lines[1] = RootLine \o Annotation(Below(<<>>))
        /\ \A n \in TreeNodes : LineOf(n) = ExpectedLine(n) \o (IF NodeIsDir(n) THEN Annotation(Below(n)) ELSE "")

(***************************************************************************)
(* Vocabulary of the claim about the thread-activity map.                  *)
(***************************************************************************)
\* The threads whose entry is not the empty string.
ActiveEntries == {w \in DOMAIN thread_activity : thread_activity[w] # ""}

\* C27: the entries of thread_activity are keyed by the threads of the pool
\* that have run a task; the entry of a thread is the name of the file it is
\* scanning, and the empty string once it has left the matcher, whatever the
\* outcome.  So no more entries than the worker bound are non-empty, and
\* once _process_files_concurrently is over, by a return or by an exception,
\* every entry is the empty string.
C27_ActivityProtocol ==
    /\ DOMAIN thread_activity \subseteq DOMAIN worker
    /\ \A w \in DOMAIN thread_activity : thread_activity[w] = (IF worker[w] # 0 THEN path_name(candidate_files[worker[w]]) ELSE "")
    /\ \A w \in DOMAIN worker : worker[w] # 0 => w \in DOMAIN thread_activity
    /\ Cardinality(ActiveEntries) <= WorkerBound
    /\ pc \in {"output", "done", "raised"} => ActiveEntries = {}

\* C27 witness: every thread of a pool of several is scanning a file, after
\* one file was scanned without a match and another with one.
C27_Witness ==
    /\ pc = "collect"
    /\ WorkerBound >= 2
    /\ Cardinality(ActiveEntries) = WorkerBound
    /\ \E i, j \in Submitted : future[i].state = "done" /\ future[i].result = {} /\ future[j].state = "done" /\ future[j].result # {}

\* C28: with full_path_compare, when a keyword is in the lower-cased
\* absolute path of the root directory, the search matches every candidate,
\* whatever its name and content, and opens none.
C28_RootPathMatchesAll ==
    (SearchReturned /\ args.full_path_compare /\ KeywordIn(path_str(fs.root))) =>
        /\ matched_files = CandidateSet
        /\ opened = {}

\* C28 witness: a finished search with a keyword of the root's path matched
\* several files, among them one with no keyword in its name or content.
C28_Witness ==
    /\ pc = "done"
    /\ SearchReturned /\ args.full_path_compare /\ KeywordIn(path_str(fs.root))
    /\ Cardinality(matched_files) >= 3
    /\ \E f \in matched_files : ~KeywordIn(path_name(f)) /\ ~KeywordIn(Join(relative_to(f))) /\ ~ContentHit(f)

(***************************************************************************)
(* Vocabulary of the claim about patterns among the ignore tokens.         *)
(***************************************************************************)
\* The ignore-path tokens that hold a glob character or a path separator.
PatternTokens == {t \in criteria.ignore_if_in_path : Contains("*", t) \/ Contains("/", t) \/ Contains("?", t)}

\* The name is one that the pattern "*rest" stands for.
PatternFits(t, name) == t # "" /\ Ch(t, 1) = "*" /\ Len(t) <= Len(name) + 1 /\ SubSeq(lower(name), Len(name) - Len(t) + 2, Len(name)) = Tail(t)

CalledAgain == pc = "done" /\ previous.calls >= 1

\* C30 as claimed: a call made again with the same arguments gives the
\* matched set and the output content of the call before it, also when the
\* output file is under the root.
C30_Idempotent ==
    CalledAgain =>
        /\ matched_files = previous.matched_files
        /\ output.written = previous.written
        /\ output.content = previous.content

=============================================================================
